---- MODULE Spec2Model ----
(***************************************************************************)
(* HAR: motion-sample windowing (useSensors), feature extraction           *)
(* (processBuffer), the classification call (classifyActivity) and the     *)
(* analysis loop with its start/stop handlers (App).                       *)
(*                                                                         *)
(* One step of the model is one callback of the single JavaScript thread   *)
(* run to its next suspension point, together with the React render and    *)
(* the effects that the callback's state updates trigger.                  *)
(***************************************************************************)
EXTENDS Integers, Sequences, FiniteSets, TLC

\* ---------------------------------------------------------------- constants
MAX_BUFFER_SIZE == 100

\* processBuffer's literal: "at least 2 seconds of data (40 samples)"
MIN_SAMPLES == 40

\* ------------------------------------------------------------------- bounds
\* Sample events delivered in a behaviour of Spec (the clock's last value).
MaxClock == 41

\* Sample events delivered in a behaviour of SpecWindow: enough to fill the
\* window and evict.  Sessions after the first receive samples only while
\* the clock is below MaxClock.
MaxWindowClock == 102

\* Recording sessions begun in a behaviour of Spec, of SpecWindow.
MaxSessions == 2

MaxWindowSessions == 1

\* Sample events delivered while not recording, in a behaviour of Spec, of
\* SpecWindow (whose claims are about the window of a recording session).
MaxIdleSamples == 1

MaxWindowIdleSamples == 0

\* classifyActivity calls issued in a behaviour of Spec, of SpecWindow.
MaxCalls == 2

MaxWindowCalls == 1

\* Bits of a number's significand (binary64: 53).
SignificandBits == 8

\* ------------------------------------------------------------ JS null values
\* null / undefined of a string-typed slot; no activity name equals them.
NULL == "null"

UNDEFINED == "undefined"

\* JavaScript truthiness of a string-or-null value, as used by `a || b`.
Falsy(v) == v \in {NULL, UNDEFINED, ""}

OrElse(v, dflt) == IF Falsy(v) THEN dflt ELSE v

\* useState<ActivityPrediction | null>(null)
NullPrediction == [null |-> TRUE]

\* processBuffer's null result
NullFeatures == [null |-> TRUE]

\* --------------------------------------------------------------------- state
VARIABLES
    \* useSensors
    isRecording, isSimulating, permissionGranted, currentData, bufferRef,
    \* App
    appState, prediction, lastPredictionRef, intervalRef,
    \* environment: live setInterval timers, Date.now(), process.env key,
    \* classifyActivity calls awaiting the backend
    timers, now, apiKeyPresent, calls,
    \* history (not program state): recording sessions begun, the timestamps
    \* of the samples that arrived in the current session while recording
    \* (a sample is identified by its timestamp), calls issued, the last step,
    \* the call whose result was last committed, samples delivered while
    \* not recording, the activity of the last successful response to a call
    \* of the current session (NULL when there is none since its start)
    session, sessionLog, callsIssued, lastOp, committed, idleSamples, confirmed

vars == <<isRecording, isSimulating, permissionGranted, currentData, bufferRef,
          appState, prediction, lastPredictionRef, intervalRef,
          timers, now, apiKeyPresent, calls,
          session, sessionLog, callsIssued, lastOp, committed, idleSamples, confirmed>>

sensorVars == <<isRecording, isSimulating, permissionGranted, currentData, bufferRef>>

appVars == <<appState, prediction, lastPredictionRef, intervalRef>>

\* ------------------------------------------------------------------- samples
\* A reading of a DeviceMotionEvent axis: <<>> when the group or the axis is
\* missing (null), <<v>> otherwise.
Clean(reading) == IF reading = <<>> \/ reading[1] = 0 THEN 0 ELSE reading[1]

InitialData == [x |-> 0, y |-> 0, z |-> 0, alpha |-> 0, beta |-> 0, gamma |-> 0,
                timestamp |-> 0]

\* The events of the model: a device without sensors (every reading null)
\* and a device at rest in free fall (every reading 0).
NoReadingEvent == [x |-> <<>>, y |-> <<>>, z |-> <<>>,
                   alpha |-> <<>>, beta |-> <<>>, gamma |-> <<>>]

ZeroEvent == [x |-> <<0>>, y |-> <<0>>, z |-> <<0>>,
              alpha |-> <<0>>, beta |-> <<0>>, gamma |-> <<0>>]

Events == {NoReadingEvent, ZeroEvent}

\* A device held still: every event carries the same non-zero readings, in
\* units of the sensor's resolution.
StillEvent == [x |-> <<7>>, y |-> <<3>>, z |-> <<98>>,
               alpha |-> <<0>>, beta |-> <<1>>, gamma |-> <<5>>]

StillEvents == {StillEvent}

NewData(event, timestamp) ==
    [x |-> Clean(event.x), y |-> Clean(event.y), z |-> Clean(event.z),
     alpha |-> Clean(event.alpha), beta |-> Clean(event.beta),
     gamma |-> Clean(event.gamma), timestamp |-> timestamp]

\* Mutant of PushShift: the shift is missing.
PushShift_NoShift(buf, newData) == Append(buf, newData)

\* Mutant of PushShift: pop (drop the newest) in place of shift.
PushShift_Pop(buf, newData) ==
    LET pushed == Append(buf, newData)
    IN  IF Len(pushed) > MAX_BUFFER_SIZE THEN SubSeq(pushed, 1, MAX_BUFFER_SIZE) ELSE pushed

\* push, then shift when the length exceeds MAX_BUFFER_SIZE
PushShift(buf, newData) ==
    LET pushed == Append(buf, newData)
    IN  IF Len(pushed) > MAX_BUFFER_SIZE THEN Tail(pushed) ELSE pushed

\* ------------------------------------------------------- feature extraction
\* A JavaScript number is a binary floating-point number: [m, e] stands for
\* m * 2^e, with m = 0 and e = 0 for zero and m odd otherwise.  Every
\* operation returns the exact result rounded to the nearest number with a
\* significand of SignificandBits bits, ties to even (binary64 has 53 bits;
\* the exponent range plays no part here).  A standard deviation is kept as
\* the number under the square root, [radicand |-> variance]: Math.sqrt
\* returns 0 for 0 only.
Abs(a) == IF a < 0 THEN -a ELSE a

Sign(a) == IF a < 0 THEN -1 ELSE 1

Max(a, b) == IF a < b THEN b ELSE a

\* The number of binary digits of a natural number
RECURSIVE Bits(_)
Bits(n) == IF n = 0 THEN 0 ELSE 1 + Bits(n \div 2)

Zero == [m |-> 0, e |-> 0]

\* The representation of m * 2^e
RECURSIVE Norm(_, _)
Norm(m, e) ==
    IF m = 0 THEN Zero
    ELSE IF m % 2 = 0 THEN Norm(m \div 2, e + 1)
    ELSE [m |-> m, e |-> e]

\* A number that holds an integer of at most SignificandBits bits
ToFloat(n) == Norm(n, 0)

\* The integer nearest to a / d for naturals a and d > 0, ties to even
RoundDiv(a, d) ==
    LET q == a \div d
        r == a % d
    IN  IF 2 * r > d \/ (2 * r = d /\ q % 2 = 1) THEN q + 1 ELSE q

\* n * 2^e rounded to SignificandBits bits
Round(n, e) ==
    LET k == Max(0, Bits(Abs(n)) - SignificandBits)
    IN  Norm(Sign(n) * RoundDiv(Abs(n), 2^k), e + k)

\* a + b.  An operand below a quarter of the other's last place is absorbed.
FAdd(a, b) ==
    IF b.m = 0 THEN a
    ELSE IF a.m = 0 THEN b
    ELSE LET topA == a.e + Bits(Abs(a.m))
             topB == b.e + Bits(Abs(b.m))
             e == IF a.e < b.e THEN a.e ELSE b.e
         IN  IF topB < topA - SignificandBits - 2 THEN a
             ELSE IF topA < topB - SignificandBits - 2 THEN b
             ELSE Round(a.m * 2^(a.e - e) + b.m * 2^(b.e - e), e)

\* a - b
FSub(a, b) == FAdd(a, [m |-> -b.m, e |-> b.e])

\* a * b
FMul(a, b) ==
    IF a.m = 0 \/ b.m = 0 THEN Zero ELSE Round(a.m * b.m, a.e + b.e)

\* a / n for an integer n > 0 (an array's length)
FDiv(a, n) ==
    IF a.m = 0 THEN Zero
    ELSE LET shift == Max(0, SignificandBits + Bits(n) - Bits(Abs(a.m)))
             num == Abs(a.m) * 2^shift
             k == Max(0, Bits(num \div n) - SignificandBits)
         IN  Norm(Sign(a.m) * RoundDiv(num, n * 2^k), a.e - shift + k)

\* arr.reduce((a, b) => a + b, acc) over arr[lo..hi]: the entries are added to
\* the accumulator one by one, from left to right.  The range is halved, and
\* the sum of the left half bound before the right half continues from it,
\* only to keep the evaluation shallow; the additions and their order are
\* those of reduce.
RECURSIVE SumRange(_, _, _, _)
SumRange(acc, arr, lo, hi) ==
    IF lo > hi THEN acc
    ELSE IF lo = hi THEN FAdd(acc, arr[lo])
    ELSE CHOOSE total \in
             {SumRange(part, arr, (lo + hi) \div 2 + 1, hi) :
                 part \in {SumRange(acc, arr, lo, (lo + hi) \div 2)}} : TRUE

\* arr.reduce((a, b) => a + b, 0)
SumSeq(arr) == SumRange(Zero, arr, 1, Len(arr))

\* arr.reduce((a, b) => a + b, 0) / arr.length
mean(arr) == FDiv(SumSeq(arr), Len(arr))

\* Math.pow(d, 2)
Sq(d) == FMul(d, d)

\* arr.map(x => Math.pow(x - meanVal, 2))
SqDiffs(arr, meanVal) == [i \in DOMAIN arr |-> Sq(FSub(arr[i], meanVal))]

\* Math.sqrt(arr.map(x => Math.pow(x - meanVal, 2)).reduce(+, 0) / arr.length)
std(arr, meanVal) ==
    [radicand |-> FDiv(SumSeq(SqDiffs(arr, meanVal)), Len(arr))]

\* data.map(d => d[ch]); a sample holds integer-valued readings
Channel(data, ch) == [i \in 1..Len(data) |-> ToFloat(data[i][ch])]

\* The mean of one channel and the standard deviation around it
MeanStd(arr, meanVal) == [mean |-> meanVal, std |-> std(arr, meanVal)]

ChannelStats(arr) == MeanStd(arr, mean(arr))

\* The twelve features of processBuffer from the statistics of the channels
FeaturesOf(x, y, z, alpha, beta, gamma) ==
    [acc_x_mean |-> x.mean, acc_x_std |-> x.std,
     acc_y_mean |-> y.mean, acc_y_std |-> y.std,
     acc_z_mean |-> z.mean, acc_z_std |-> z.std,
     gyro_alpha_mean |-> alpha.mean, gyro_alpha_std |-> alpha.std,
     gyro_beta_mean |-> beta.mean, gyro_beta_std |-> beta.std,
     gyro_gamma_mean |-> gamma.mean, gyro_gamma_std |-> gamma.std]

\* The result of processBuffer for a buffer past the length test
Features(data) ==
    FeaturesOf(ChannelStats(Channel(data, "x")),
               ChannelStats(Channel(data, "y")),
               ChannelStats(Channel(data, "z")),
               ChannelStats(Channel(data, "alpha")),
               ChannelStats(Channel(data, "beta")),
               ChannelStats(Channel(data, "gamma")))

\* Mutant of ProcessData: the length test is off by one.
ProcessData_OffByOne(data) ==
    IF Len(data) <= MIN_SAMPLES THEN NullFeatures ELSE Features(data)

\* processBuffer applied to a buffer's contents
ProcessData(data) ==
    IF Len(data) < MIN_SAMPLES THEN NullFeatures ELSE Features(data)

\* getFeatures(): processBuffer over bufferRef.current
processBuffer == ProcessData(bufferRef)

\* ------------------------------------------------------- classifyActivity
Activities == {"Walking", "Running"}

\* What the backend does with one request: generateContent rejects, returns
\* no text, returns text that JSON.parse rejects, returns the JSON text of
\* an object of the response schema ("json"), or returns the JSON text of an
\* object that lacks fields of the schema ("partial").
FullPayloads == {[activity |-> a, confidence |-> 90, emoji |-> "*", reasoning |-> "pattern"] :
                    a \in Activities}

PartialPayloads == {[emoji |-> "*", reasoning |-> "pattern"]}

Responses == {[kind |-> "error"], [kind |-> "empty"], [kind |-> "malformed"]}
             \cup {[kind |-> "json", result |-> p] : p \in FullPayloads}
             \cup {[kind |-> "partial", result |-> p] : p \in PartialPayloads}

\* A property read of an object: undefined when the object lacks it
Get(object, field) == IF field \in DOMAIN object THEN object[field] ELSE UNDEFINED

\* { ...result, timestamp: Date.now() }
Spread(result, timestamp) ==
    [f \in DOMAIN result \cup {"timestamp"} |->
        IF f = "timestamp" THEN timestamp ELSE result[f]]

WindowResponses ==
    {r \in Responses : r.kind = "error" \/ (r.kind = "json" /\ r.result.activity = "Walking")}

\* The catch block's return value
DegradedLabel(timestamp) ==
    [activity |-> "Unknown", confidence |-> 0, emoji |-> "?",
     reasoning |-> "Could not connect to AI service.", timestamp |-> timestamp]

\* The value classifyActivity's promise resolves to, given the backend's
\* response and Date.now()
ClassifyResult(response, timestamp) ==
    IF response.kind \in {"json", "partial"}
    THEN Spread(response.result, timestamp)
    ELSE DegradedLabel(timestamp)

\* The "Previous Activity:" line of the prompt
PromptPrevious(previousActivity) == OrElse(previousActivity, "None / Initializing")

\* ---------------------------------------------------------------- Init
Init ==
    /\ isRecording = FALSE
    /\ isSimulating = FALSE
    /\ permissionGranted = FALSE
    /\ currentData = InitialData
    /\ bufferRef = <<>>
    /\ appState = "IDLE"
    /\ prediction = NullPrediction
    /\ lastPredictionRef = NULL
    /\ intervalRef = 0
    /\ timers = {}
    /\ now = 0
    /\ apiKeyPresent \in BOOLEAN
    /\ calls = {}
    /\ session = 0
    /\ sessionLog = <<>>
    /\ callsIssued = 0
    /\ lastOp = [op |-> "init"]
    /\ committed = [id |-> 0, session |-> 0]
    /\ idleSamples = 0
    /\ confirmed = NULL

\* ------------------------------------------------------------- useSensors
\* Mutant of handleMotion: no sample is buffered while a call awaits the
\* backend.
handleMotion_BlockedWhilePending(event, maxClock, maxIdle) ==
    /\ now < (IF session <= 1 THEN maxClock ELSE MaxClock)
    /\ isRecording \/ idleSamples < maxIdle
    /\ isSimulating \/ permissionGranted
    /\ now' = now + 1
    /\ idleSamples' = IF isRecording THEN idleSamples ELSE idleSamples + 1
    /\ LET newData == NewData(event, now')
       IN  /\ currentData' = newData
           /\ bufferRef' = IF isRecording /\ calls = {}
                           THEN PushShift(bufferRef, newData)
                           ELSE bufferRef
           /\ sessionLog' = IF isRecording
                            THEN Append(sessionLog, newData.timestamp)
                            ELSE sessionLog
    /\ lastOp' = [op |-> "handleMotion"]
    /\ UNCHANGED <<isRecording, isSimulating, permissionGranted, appVars, timers,
                   apiKeyPresent, calls, session, callsIssued, committed,
                   confirmed>>

\* handleMotion, called by the devicemotion listener (permission granted,
\* not simulating) or by the simulation interval (simulating).  Date.now()
\* as handleMotion reads it is a logical clock: the number of sample events
\* delivered so far.
handleMotion(event, maxClock, maxIdle) ==
    /\ now < (IF session <= 1 THEN maxClock ELSE MaxClock)
    /\ isRecording \/ idleSamples < maxIdle
    /\ isSimulating \/ permissionGranted
    /\ now' = now + 1
    /\ idleSamples' = IF isRecording THEN idleSamples ELSE idleSamples + 1
    /\ LET newData == NewData(event, now')
       IN  /\ currentData' = newData
           /\ bufferRef' = IF isRecording THEN PushShift(bufferRef, newData) ELSE bufferRef
           /\ sessionLog' = IF isRecording
                            THEN Append(sessionLog, newData.timestamp)
                            ELSE sessionLog
    /\ lastOp' = [op |-> "handleMotion"]
    /\ UNCHANGED <<isRecording, isSimulating, permissionGranted, appVars, timers,
                   apiKeyPresent, calls, session, callsIssued, committed,
                   confirmed>>

\* Mutant of EffectTimers: the effect has no cleanup.
EffectTimers_NoCleanup(recording) ==
    IF recording = isRecording THEN timers
    ELSE IF recording THEN timers \cup {session + 1}
    ELSE timers

\* The analysis-loop effect of App, run by the render that follows a change
\* of isRecording: the previous run's cleanup, then the new run.
EffectTimers(recording) ==
    IF recording = isRecording THEN timers
    ELSE IF recording THEN (timers \ {intervalRef}) \cup {session + 1}
    ELSE timers \ {intervalRef}

EffectIntervalRef(recording) ==
    IF recording # isRecording /\ recording THEN session + 1 ELSE intervalRef

\* Mutant of toggleSimulation: the buffer is not cleared.
toggleSimulation_KeepBuffer ==
    /\ isSimulating' = ~isSimulating
    /\ isRecording' = FALSE
    /\ timers' = EffectTimers(FALSE)
    /\ intervalRef' = EffectIntervalRef(FALSE)
    /\ sessionLog' = <<>>
    /\ lastOp' = [op |-> "toggleSimulation"]
    /\ UNCHANGED <<permissionGranted, currentData, bufferRef, appState, prediction,
                   lastPredictionRef, now, apiKeyPresent, calls, session,
                   callsIssued, committed, idleSamples, confirmed>>

\* toggleSimulation (the simulation button)
toggleSimulation ==
    /\ isSimulating' = ~isSimulating
    /\ isRecording' = FALSE
    /\ bufferRef' = <<>>
    /\ timers' = EffectTimers(FALSE)
    /\ intervalRef' = EffectIntervalRef(FALSE)
    /\ sessionLog' = <<>>
    /\ lastOp' = [op |-> "toggleSimulation"]
    /\ UNCHANGED <<permissionGranted, currentData, appState, prediction, lastPredictionRef,
                   now, apiKeyPresent, calls, session, callsIssued,
                   committed, idleSamples, confirmed>>

\* ------------------------------------------------------------------- App
\* handleStart from setPrediction(null) on, with startRecording and the
\* render it causes.
StartBody(maxSessions) ==
    /\ isRecording \/ session < maxSessions
    /\ prediction' = NullPrediction
    /\ lastPredictionRef' = NULL
    /\ appState' = "RECORDING"
    /\ isRecording' = TRUE
    /\ timers' = EffectTimers(TRUE)
    /\ intervalRef' = EffectIntervalRef(TRUE)
    /\ session' = IF isRecording THEN session ELSE session + 1
    /\ sessionLog' = IF isRecording THEN sessionLog ELSE <<>>
    /\ confirmed' = NULL
    /\ UNCHANGED <<isSimulating, currentData, bufferRef, now, apiKeyPresent, calls,
                   callsIssued, committed, idleSamples>>

\* A click on "Initiate" (rendered while appState is IDLE): handleStart.
\* When it awaits requestPermissions, `granted` is the outcome.  The await
\* is taken in the same step: until it settles nothing but the answer to an
\* earlier call can run (no listener, no simulation and no interval timer
\* is live, and the permission prompt is modal), and handleStart overwrites
\* what such an answer writes.
handleStart(granted, maxSessions) ==
    /\ appState = "IDLE"
    /\ permissionGranted' = IF ~permissionGranted /\ ~isSimulating
                            THEN granted
                            ELSE permissionGranted
    /\ StartBody(maxSessions)
    /\ lastOp' = [op |-> "handleStart"]

\* The "Grant Access" button (rendered while neither granted nor simulating):
\* requestPermissions with permission granted.  A denied request changes
\* nothing.
requestPermissions ==
    /\ ~permissionGranted /\ ~isSimulating
    /\ permissionGranted' = TRUE
    /\ lastOp' = [op |-> "requestPermissions"]
    /\ UNCHANGED <<isRecording, isSimulating, currentData, bufferRef, appVars, timers, now,
                   apiKeyPresent, calls, session, sessionLog, callsIssued,
                   committed, idleSamples, confirmed>>

\* Mutant of handleStop: stopRecording does not clear the buffer.
handleStop_KeepBuffer ==
    /\ appState # "IDLE"
    /\ isRecording' = FALSE
    /\ appState' = "IDLE"
    /\ lastPredictionRef' = NULL
    /\ timers' = timers \ {intervalRef}
    /\ sessionLog' = <<>>
    /\ confirmed' = NULL
    /\ lastOp' = [op |-> "handleStop"]
    /\ UNCHANGED <<isSimulating, permissionGranted, currentData, bufferRef, prediction,
                   intervalRef, now, apiKeyPresent, calls, session, callsIssued,
                   committed, idleSamples>>

\* A click on "Cease" (rendered while appState is not IDLE)
handleStop ==
    /\ appState # "IDLE"
    /\ isRecording' = FALSE
    /\ bufferRef' = <<>>
    /\ appState' = "IDLE"
    /\ lastPredictionRef' = NULL
    /\ timers' = timers \ {intervalRef}
    /\ sessionLog' = <<>>
    /\ confirmed' = NULL
    /\ lastOp' = [op |-> "handleStop"]
    /\ UNCHANGED <<isSimulating, permissionGranted, currentData, prediction, intervalRef,
                   now, apiKeyPresent, calls, session, callsIssued,
                   committed, idleSamples>>

\* The call that a tick issues
NewCall(features) ==
    [id |-> callsIssued + 1,
     session |-> session,
     features |-> features,
     previousActivity |-> OrElse(lastPredictionRef, UNDEFINED),
     prompt |-> PromptPrevious(OrElse(lastPredictionRef, UNDEFINED))]

\* Mutant of tick: the test of getFeatures' result is missing.
tick_NoFeatureTest(t, maxCalls) ==
    /\ t \in timers
    /\ apiKeyPresent
    /\ callsIssued < maxCalls
    /\ callsIssued' = callsIssued + 1
    /\ calls' = calls \cup {NewCall(processBuffer)}
    /\ lastOp' = [op |-> "tick", outcome |-> "issued"]
    /\ UNCHANGED <<sensorVars, appVars, timers, now, apiKeyPresent,
                   session, sessionLog, committed, idleSamples, confirmed>>

\* Mutant of tick: no request while the Label shown is "Unknown".
tick_BackoffAfterFailure(t, maxCalls) ==
    /\ t \in timers
    /\ \E features \in {processBuffer} :
           IF features = NullFeatures \/ Get(prediction, "activity") = "Unknown"
           THEN /\ lastOp' = [op |-> "tick", outcome |-> "skipped"]
                /\ UNCHANGED <<calls, callsIssued>>
           ELSE IF ~apiKeyPresent
           THEN /\ lastOp' = [op |-> "tick", outcome |-> "threw"]
                /\ UNCHANGED <<calls, callsIssued>>
           ELSE /\ callsIssued < maxCalls
                /\ callsIssued' = callsIssued + 1
                /\ calls' = calls \cup {NewCall(features)}
                /\ lastOp' = [op |-> "tick", outcome |-> "issued"]
    /\ UNCHANGED <<sensorVars, appVars, timers, now, apiKeyPresent,
                   session, sessionLog, committed, idleSamples, confirmed>>

\* The interval callback up to its await: timer t fires.
tick(t, maxCalls) ==
    /\ t \in timers
    /\ \E features \in {processBuffer} :
           IF features = NullFeatures
           THEN /\ lastOp' = [op |-> "tick", outcome |-> "skipped"]
                /\ UNCHANGED <<calls, callsIssued>>
           ELSE IF ~apiKeyPresent
           THEN /\ lastOp' = [op |-> "tick", outcome |-> "threw"]
                /\ UNCHANGED <<calls, callsIssued>>
           ELSE /\ callsIssued < maxCalls
                /\ callsIssued' = callsIssued + 1
                /\ calls' = calls \cup {NewCall(features)}
                /\ lastOp' = [op |-> "tick", outcome |-> "issued"]
    /\ UNCHANGED <<sensorVars, appVars, timers, now, apiKeyPresent,
                   session, sessionLog, committed, idleSamples, confirmed>>

\* Date.now() as classifyActivity reads it for a Label's timestamp: a logical
\* clock, the number of Labels produced before this one plus one.
LabelTime == callsIssued - Cardinality(calls) + 1

\* Mutant of tickResume: the context is not written.
tickResume_LabelOnly(c, response) ==
    /\ c \in calls
    /\ prediction' = ClassifyResult(response, LabelTime)
    /\ calls' = calls \ {c}
    /\ committed' = [id |-> c.id, session |-> c.session]
    /\ lastOp' = [op |-> "tickResume", response |-> response]
    /\ UNCHANGED <<sensorVars, appState, lastPredictionRef, intervalRef, timers, now,
                   apiKeyPresent, session, sessionLog, callsIssued,
                   idleSamples, confirmed>>

\* The backend settles call c and the interval callback resumes after its
\* await: setPrediction(result); lastPredictionRef.current = result.activity.
tickResume(c, response) ==
    /\ c \in calls
    /\ LET result == ClassifyResult(response, LabelTime)
       IN  /\ prediction' = result
           /\ lastPredictionRef' = Get(result, "activity")
    /\ calls' = calls \ {c}
    /\ committed' = [id |-> c.id, session |-> c.session]
    /\ confirmed' = IF response.kind = "json" /\ isRecording /\ c.session = session
                     THEN response.result.activity
                     ELSE confirmed
    /\ lastOp' = [op |-> "tickResume", response |-> response]
    /\ UNCHANGED <<sensorVars, appState, intervalRef, timers, now, apiKeyPresent,
                   session, sessionLog, callsIssued, idleSamples>>

\* -------------------------------------------------------- specifications
NextWith(events, maxClock, maxIdle, maxSessions, maxCalls, responses) ==
    \/ \E event \in events : handleMotion(event, maxClock, maxIdle)
    \/ toggleSimulation
    \/ \E granted \in BOOLEAN : handleStart(granted, maxSessions)
    \/ requestPermissions
    \/ handleStop
    \/ \E t \in timers : tick(t, maxCalls)
    \/ \E c \in calls, response \in responses : tickResume(c, response)

Next ==
    NextWith(Events, MaxClock, MaxIdleSamples, MaxSessions, MaxCalls, Responses)

Spec == Init /\ [][Next]_vars

\* The long recording that fills and slides the window: one rejected and
\* one well-formed response stand for the backend.
NextWindow ==
    NextWith(Events, MaxWindowClock, MaxWindowIdleSamples, MaxWindowSessions,
             MaxWindowCalls, WindowResponses)

SpecWindow == Init /\ [][NextWindow]_vars

\* The recordings of a device held still: every sample of a window is the
\* same non-zero sample.
NextFeatures ==
    NextWith(StillEvents, MaxClock, MaxIdleSamples, MaxSessions, MaxCalls,
             WindowResponses)

SpecFeatures == Init /\ [][NextFeatures]_vars

\* ------------------------------------------------------------------ claims
Min(a, b) == IF a < b THEN a ELSE b

\* The calls of the current session that await the backend
InFlight == {c \in calls : c.session = session}

\* A session was stopped and none has started since
Stopped == session > 0 /\ ~isRecording /\ appState = "IDLE"

\* C1: in every reachable state of a session at most one classification
\* request of that session is in flight; a tick that is due while a request
\* is unresolved issues no second one.
C1_AtMostOneInFlight == Cardinality(InFlight) <= 1

\* C2: a response that resolves after stop, before the next start, changes
\* neither the current Label nor the previous-activity context.
C2_StaleResponseDiscarded ==
    [][(Stopped /\ lastOp'.op = "tickResume")
         => (prediction' = prediction /\ lastPredictionRef' = lastPredictionRef)]_vars

\* C3: in a recording session the Label and the previous-activity context
\* only hold values committed from responses to calls issued in that
\* session (after stop, start, a response of the stopped session mutates
\* neither).
C3_OnlyOwnSessionCommits ==
    isRecording =>
        /\ prediction # NullPrediction => committed.session = session
        /\ lastPredictionRef # NULL => committed.session = session

\* The backend call failed: it rejected, or its text was empty or not JSON
Failed(response) == response.kind \in {"error", "empty", "malformed"}

\* C4: when a tick's backend call fails the Label has activity "Unknown" and
\* confidence 0, and the previous-activity context keeps the value it had
\* before the response.
C4_FailureKeepsContext ==
    [][(lastOp'.op = "tickResume" /\ Failed(lastOp'.response))
         => /\ prediction'.activity = "Unknown"
            /\ prediction'.confidence = 0
            /\ lastPredictionRef' = lastPredictionRef]_vars

\* C5: in every reachable state the sample buffer holds at most 100 samples.
C5_BufferBounded == Len(bufferRef) <= 100

\* C5 witness: a full buffer from which a sample has been evicted
C5_Witness == Len(bufferRef) = 100 /\ Len(sessionLog) > 100

\* C6: after N samples appended in a recording session the buffer holds
\* exactly the most recent min(N, 100) of them, in arrival order.
C6_MostRecentInOrder ==
    isRecording =>
        LET N == Len(sessionLog)
            k == Min(N, 100)
        IN  /\ Len(bufferRef) = k
            /\ \A i \in 1..k : bufferRef[i].timestamp = sessionLog[N - k + i]

\* C6 witness: a session in which two samples have been evicted
C6_Witness == isRecording /\ Len(sessionLog) = 102 /\ bufferRef[1].timestamp > 2

FeatureNames == {"acc_x_mean", "acc_x_std", "acc_y_mean", "acc_y_std",
                 "acc_z_mean", "acc_z_std", "gyro_alpha_mean", "gyro_alpha_std",
                 "gyro_beta_mean", "gyro_beta_std", "gyro_gamma_mean", "gyro_gamma_std"}

\* C7: extraction returns null exactly when the window holds fewer than 40
\* samples; from 40 to 100 samples it returns the twelve-scalar vector.
C7_NullBelowForty ==
    /\ Len(bufferRef) <= 39 => processBuffer = NullFeatures
    /\ Len(bufferRef) \in 40..100 => DOMAIN processBuffer = FeatureNames

\* C7 witness: a window of exactly 40 samples, for which a vector is returned
C7_Witness == Len(bufferRef) = 40 /\ processBuffer # NullFeatures

\* C8: a tick on which extraction reports insufficient data issues no
\* request and changes neither the Window, the Label nor the context.
C8_SkippedTickChangesNothing ==
    [][(lastOp'.op = "tick" /\ processBuffer = NullFeatures)
         => UNCHANGED <<bufferRef, prediction, lastPredictionRef, calls, callsIssued>>]_vars

\* C8 witness: a tick was skipped on a window one sample short of the threshold
C8_Witness ==
    lastOp.op = "tick" /\ lastOp.outcome = "skipped" /\ Len(bufferRef) = 39

\* C9: when a tick's backend call succeeds, the Label is the response and
\* the previous-activity context is the response's activity name, so after
\* the tick the context equals the displayed Label's activity.
C9_SuccessCommitsBoth ==
    (lastOp.op = "tickResume" /\ lastOp.response.kind = "json")
        => /\ prediction.activity = lastOp.response.result.activity
           /\ prediction.confidence = lastOp.response.result.confidence
           /\ prediction.emoji = lastOp.response.result.emoji
           /\ prediction.reasoning = lastOp.response.result.reasoning
           /\ lastPredictionRef = lastOp.response.result.activity
           /\ lastPredictionRef = prediction.activity

\* C9 witness: a successful response was committed in a recording session
C9_Witness ==
    /\ lastOp.op = "tickResume" /\ lastOp.response.kind = "json"
    /\ isRecording /\ committed.session = session
    /\ lastPredictionRef = "Walking"

\* C10: every request carries the activity name last confirmed in the
\* current session, and the no-prior-context marker when the session has
\* had no successful tick yet.
C10_RequestCarriesConfirmed ==
    [][(lastOp'.op = "tick" /\ lastOp'.outcome = "issued")
         => \A c \in calls' \ calls :
               c.prompt = (IF confirmed = NULL THEN "None / Initializing" ELSE confirmed)]_vars

\* C11: stop leaves the window empty and the previous-activity context
\* cleared, and in a recording session extraction yields insufficient-data
\* as long as fewer than 40 samples have arrived in that session, whatever
\* arrived in earlier sessions.
C11_StopClearsAndThresholdPerSession ==
    /\ lastOp.op = "handleStop" => (Len(bufferRef) = 0 /\ lastPredictionRef = NULL)
    /\ (isRecording /\ Len(sessionLog) < MIN_SAMPLES) => processBuffer = NullFeatures

\* C11 witness: a second session holds 39 samples after a first session
\* that recorded one, 40 samples in all, and extraction is still null
C11_Witness ==
    /\ session = 2 /\ isRecording /\ idleSamples = 0
    /\ now = MIN_SAMPLES /\ Len(sessionLog) = MIN_SAMPLES - 1
    /\ processBuffer = NullFeatures

\* The core state that the lifecycle operations govern: the Window, the
\* Label, the previous-activity context, the recording flag and the live
\* analysis timers (the tick cadence)
coreState == <<bufferRef, prediction, lastPredictionRef, isRecording, timers>>

\* C12: start invoked while the session is recording and stop invoked while
\* it is not recording are no-ops: they leave the Window, the Label, the
\* previous-activity context and the tick cadence unchanged.
C12_StartStopIdempotent ==
    [][/\ (isRecording /\ lastOp'.op = "handleStart") => UNCHANGED coreState
       /\ (~isRecording /\ lastOp'.op = "handleStop") => UNCHANGED coreState]_vars

\* The degraded Label: "Unknown", confidence 0, the neutral glyph, the
\* rationale that the backend was unreachable, and a timestamp
IsDegraded(label) ==
    /\ DOMAIN label = {"activity", "confidence", "emoji", "reasoning", "timestamp"}
    /\ label.activity = "Unknown"
    /\ label.confidence = 0
    /\ label.emoji = "?"
    /\ label.reasoning = "Could not connect to AI service."

\* C13: whenever the backend returns an error, an empty response or a
\* malformed response, a response that lacks fields of the schema included,
\* the tick produces the degraded Label.
C13_UnusableResponseDegrades ==
    (lastOp.op = "tickResume" /\ lastOp.response.kind # "json") => IsDegraded(prediction)

\* C14: no classification attempt ends in a thrown fault: a tick whose
\* extraction yields a vector calls classifyActivity and the call resolves
\* to a Label, whatever the failure cause, a missing API key included.
C14_NoThrownFault ==
    lastOp.op = "tick" => lastOp.outcome \in {"skipped", "issued"}

\* C15: a failed tick does not end the session: the degraded Label leaves
\* the recording flag, the timer and the window as they were, and a timer
\* tick that fires while the degraded Label is shown and the window holds
\* at least 40 samples issues one new request.
C15_FailedTickThenRetry ==
    [][/\ (lastOp'.op = "tickResume" /\ Failed(lastOp'.response))
            => UNCHANGED <<isRecording, appState, timers, intervalRef, bufferRef>>
       /\ (lastOp'.op = "tick" /\ apiKeyPresent /\ IsDegraded(prediction)
              /\ Len(bufferRef) >= MIN_SAMPLES)
            => /\ lastOp'.outcome = "issued"
               /\ Cardinality(calls' \ calls) = 1
               /\ callsIssued' = callsIssued + 1]_vars

\* C15 witness: in one session a request failed, the degraded Label is
\* shown, and the next tick has issued a second request
C15_Witness ==
    /\ lastOp.op = "tick" /\ lastOp.outcome = "issued"
    /\ isRecording /\ committed.session = session /\ committed.id = 1
    /\ IsDegraded(prediction)
    /\ \E c \in calls : c.id = 2 /\ c.session = session

\* C16: a pending request does not block ingestion: a sample that arrives
\* in a recording session while a request is in flight is appended to the
\* buffer, the oldest sample leaving a full buffer.
C16_IngestionWhilePending ==
    [][(lastOp'.op = "handleMotion" /\ isRecording /\ InFlight # {})
         => bufferRef' = IF Len(bufferRef) < MAX_BUFFER_SIZE
                         THEN Append(bufferRef, currentData')
                         ELSE Append(Tail(bufferRef), currentData')]_vars

\* C16 witness: with a request in flight, a sample arrived and evicted the
\* oldest one from the full buffer
C16_Witness ==
    /\ lastOp.op = "handleMotion" /\ isRecording /\ InFlight # {}
    /\ Len(sessionLog) > MAX_BUFFER_SIZE + 1
    /\ bufferRef[MAX_BUFFER_SIZE] = currentData

\* C17: stop halts the tick cadence: at every moment at most one analysis
\* timer is live and none while not recording, and no request is issued
\* while not recording (after stop, until the next start), for any sequence
\* of start, stop and simulation toggle.
C17_StopHaltsCadence ==
    /\ [](Cardinality(timers) <= 1 /\ (~isRecording => timers = {}))
    /\ [][~isRecording => (callsIssued' = callsIssued /\ calls' \subseteq calls)]_vars

\* C17 witness: a session that issued a request was stopped, a second
\* session runs on its own timer, and the first timer is gone
C17_Witness ==
    /\ session = 2 /\ isRecording /\ callsIssued >= 1
    /\ timers = {intervalRef} /\ intervalRef = 2

\* The samples of a window are one sample repeated (timestamps apart)
Identical(data) ==
    \A i \in 1..Len(data) :
        \A ch \in {"x", "y", "z", "alpha", "beta", "gamma"} :
            data[i][ch] = data[1][ch]

\* A channel's statistics are those of a constant: mean v, deviation 0
ExactOf(meanVal, stdVal, v) == meanVal = ToFloat(v) /\ stdVal.radicand = Zero

\* C18: each channel's mean is the sum of its values over N and its std the
\* square root of the mean squared deviation from that mean; consequently a
\* window of k identical samples that meets the threshold yields, on every
\* channel, std 0 and a mean equal to the sample's value.
C18_IdenticalSamplesExact ==
    (Len(bufferRef) >= MIN_SAMPLES /\ Identical(bufferRef)) =>
        \A f \in {processBuffer} : \A d \in {bufferRef[1]} :
            /\ ExactOf(f.acc_x_mean, f.acc_x_std, d.x)
            /\ ExactOf(f.acc_y_mean, f.acc_y_std, d.y)
            /\ ExactOf(f.acc_z_mean, f.acc_z_std, d.z)
            /\ ExactOf(f.gyro_alpha_mean, f.gyro_alpha_std, d.alpha)
            /\ ExactOf(f.gyro_beta_mean, f.gyro_beta_std, d.beta)
            /\ ExactOf(f.gyro_gamma_mean, f.gyro_gamma_std, d.gamma)

\* C19: when responses resolve out of order, the response to an older
\* request never overwrites the context or the Label after the response to
\* a newer request of the session has been committed.
C19_OlderNeverOverwritesNewer ==
    [][\A c \in calls \ calls' :
          (/\ lastOp'.op = "tickResume"
           /\ isRecording
           /\ c.session = session
           /\ committed.session = session
           /\ c.id < committed.id)
          => UNCHANGED <<prediction, lastPredictionRef>>]_vars

\* C20: the Window is empty in every state in which the session is not
\* recording: a sample that arrives while not recording updates currentData
\* only, stop and the simulation toggle clear the buffer, and start, which
\* does not clear it, finds it empty.
C20_WindowEmptyWhileIdle ==
    [][/\ ~isRecording' => bufferRef' = <<>>
       /\ (lastOp'.op = "handleMotion" /\ ~isRecording) =>
              /\ currentData'.timestamp = now'
              /\ UNCHANGED <<bufferRef, isRecording, isSimulating,
                             permissionGranted, appVars, timers>>
       /\ lastOp'.op \in {"handleStop", "toggleSimulation"} => bufferRef' = <<>>
       /\ lastOp'.op = "handleStart" =>
              (bufferRef' = bufferRef /\ (~isRecording => bufferRef' = <<>>))]_vars

\* C20 witness: a sample arrives after a session that buffered samples was
\* ended by the simulation toggle
C20_Witness ==
    /\ lastOp.op = "handleMotion"
    /\ ~isRecording
    /\ appState = "RECORDING"
    /\ session = 1
    /\ idleSamples = 1
    /\ now > MIN_SAMPLES
    /\ currentData.timestamp = now
    /\ bufferRef = <<>>

\* C21: appState is RECORDING exactly when isRecording is true, after any
\* sequence of start, stop and simulation-toggle operations; a simulation
\* toggle leaves the session Idle with its previous-activity context
\* cleared.
C21_AppStateAgreesWithCore ==
    /\ (appState = "RECORDING") <=> isRecording
    /\ lastOp.op = "toggleSimulation" =>
           (appState = "IDLE" /\ lastPredictionRef = NULL)

====
